---- MODULE Spec2Model ----
(***************************************************************************)
(* A model of scripts/fill_template.py: the interactive resolution of the  *)
(* eight template decisions, the confirmation, the rewrite pass over the   *)
(* project tree with its placeholder evaluator, and DecisionOption.describe*)
(*                                                                         *)
(* Strings.  A Python str is a sequence of chunks; every chunk is a TLA+   *)
(* string.  Lines typed by the user are sequences of single characters,    *)
(* the texts of the catalogue and of the files are sequences of atomic     *)
(* chunks ("<$", "$>", "!" and identifiers are chunks of their own).       *)
(* Every Python value is a record with a field k naming its type.          *)
(***************************************************************************)
EXTENDS Integers, Sequences, FiniteSets, TLC

VARIABLES
    pc,              \* position of main
    args,            \* the parsed command line
    options,         \* decisions[name]._options
    made_decisions,  \* the dict made_decisions of main
    order,           \* insertion order of made_decisions
    cur,             \* index of the decision the for loop of main is at
    depth,           \* recursion depth of DecisionResolver.make
    shown,           \* options, the list that make displays
    response,        \* the menu response of the current call of make
    custom,          \* the custom text of the current call of make
    printed,         \* what the current call of make printed after its input
    returned,        \* what the last call of make returned
    confirmation,    \* the line main read at the confirmation
    status,          \* exit status of the process
    exc,             \* the exception that ended the run
    fs,              \* the entries under project_root
    fs0,             \* the entries under project_root when the run started
    todo,            \* entries project_root.rglob('*') has not yielded yet
    scanned,         \* files whose text the loop has read
    evals,           \* the calls of repl for the file read last
    opt,             \* describe: the DecisionOption described
    described        \* describe: its result

vars == <<pc, args, options, made_decisions, order, cur, depth, shown, response,
          custom, printed, returned, confirmation, status, exc, fs, fs0, todo,
          scanned, evals, opt, described>>

-----------------------------------------------------------------------------
(* Bounds of the model *)

\* the static catalogues are taken up to their first MaxMenu options
MaxMenu == 1
\* make calls itself at most MaxDepth times for one decision
MaxDepth == 1
\* describe: longest option name and longest option value
MaxNameLen == 21
MaxValueLen == 21

-----------------------------------------------------------------------------
(* Python values *)

None == [k |-> "None"]
Str(s) == [k |-> "str", s |-> s]
Raise(e) == [k |-> "raise", exc |-> e]
List(items) == [k |-> "list", items |-> items]

\* class License
License(long, short) == [k |-> "License", long |-> long, short |-> short]
\* class PyVersions
PyVersions(semver, minors, preferred) ==
    [k |-> "PyVersions", semver |-> semver, _minors |-> minors, preferred |-> preferred]
\* class DecisionOption(NamedTuple)
DecisionOption(name, value) == [k |-> "DecisionOption", name |-> name, value |-> value]

Take(seq, n) == SubSeq(seq, 1, IF Len(seq) < n THEN Len(seq) ELSE n)
Range(seq) == {seq[i] : i \in 1..Len(seq)}

-----------------------------------------------------------------------------
(* str.split(','), str.strip(), class Authors *)

Whitespace == {" ", "\t", "\n"}

RECURSIVE LStrip(_)
LStrip(s) == IF s # <<>> /\ Head(s) \in Whitespace THEN LStrip(Tail(s)) ELSE s

RECURSIVE RStrip(_)
RStrip(s) ==
    IF s # <<>> /\ s[Len(s)] \in Whitespace THEN RStrip(SubSeq(s, 1, Len(s) - 1)) ELSE s

Strip(s) == RStrip(LStrip(s))

RECURSIVE SplitOn(_, _, _)
\* s.split(sep): acc is the part being read
SplitOn(s, sep, acc) ==
    IF s = <<>> THEN <<acc>>
    ELSE IF Head(s) = sep THEN <<acc>> \o SplitOn(Tail(s), sep, <<>>)
    ELSE SplitOn(Tail(s), sep, Append(acc, Head(s)))

Authors(x) ==
    LET raw == SplitOn(x, ",", <<>>)
    IN  [k |-> "Authors", parts |-> [i \in 1..Len(raw) |-> Strip(raw[i])]]

-----------------------------------------------------------------------------
(* The option catalogue *)

license_options == <<
    DecisionOption(<<"blank">>, License(<<>>, <<>>)),
    DecisionOption(<<"proprietary">>,
                   License(<<"Copyright (c) {year}, {authors}">>, <<"Proprietary">>)),
    DecisionOption(<<"MIT">>,
                   License(<<"Copyright (c) {year}, {authors}", "\n\n",
                             "Permission is hereby granted, free of charge, ...">>,
                           <<"MIT">>)) >>

py_version_options == <<
    DecisionOption(<<"^3.6">>, PyVersions(<<"^3.6">>, <<"3.6", "3.7", "3.8", "3.9">>, <<"3.7">>)),
    DecisionOption(<<"^3.7">>, PyVersions(<<"^3.7">>, <<"3.7", "3.8", "3.9">>, <<"3.8">>)),
    DecisionOption(<<"^3.8">>, PyVersions(<<"^3.8">>, <<"3.8", "3.9">>, <<"3.8">>)),
    DecisionOption(<<"^3.9">>, PyVersions(<<"^3.9">>, <<"3.9">>, <<"3.9">>)) >>

platform_options == <<
    DecisionOption(<<"All Majors">>, Str(<<"ubuntu-latest, macos-latest, windows-latest">>)),
    DecisionOption(<<"No Windows">>, Str(<<"ubuntu-latest, macos-latest">>)),
    DecisionOption(<<"No Macos">>, Str(<<"ubuntu-latest, windows-latest">>)),
    DecisionOption(<<"No Ubuntu">>, Str(<<"macos-latest, windows-latest">>)),
    DecisionOption(<<"Windows">>, Str(<<"windows-latest">>)),
    DecisionOption(<<"Macos">>, Str(<<"macos-latest">>)),
    DecisionOption(<<"Ubuntu">>, Str(<<"ubuntu-latest">>)) >>

initial_version_options == <<
    DecisionOption(<<"0.0.1.dev">>, Str(<<"0.0.1.dev">>)),
    DecisionOption(<<"0.1.0.dev">>, Str(<<"0.1.0.dev">>)),
    DecisionOption(<<"1.0.0.dev">>, Str(<<"1.0.0.dev">>)) >>

\* the keys of the dict decisions, in the order the dict holds them
Names == <<"package", "authors", "year", "repo_link", "license", "py_versions",
           "os_platforms", "inital_version">>

\* the resolver each key is constructed with: its options, pattern and class
decisions == [
    package        |-> [options |-> {}, pattern |-> "[a-zA-Z][a-zA-Z0-9_]*",
                        class |-> "ConstResolver"],
    authors        |-> [options |-> {}, pattern |-> "author(,\\s*author)*",
                        class |-> "AuthorsResolver"],
    year           |-> [options |-> {}, pattern |-> "[0-9]{4}", class |-> "ConstResolver"],
    repo_link      |-> [options |-> {}, pattern |-> ".*", class |-> "ConstResolver"],
    license        |-> [options |-> Range(Take(license_options, MaxMenu)),
                        pattern |-> ".*", class |-> "ConstResolver"],
    py_versions    |-> [options |-> Range(Take(py_version_options, MaxMenu)),
                        pattern |-> ".*", class |-> "ConstResolver"],
    os_platforms   |-> [options |-> Range(Take(platform_options, MaxMenu)),
                        pattern |-> ".*", class |-> "ConstResolver"],
    inital_version |-> [options |-> Range(Take(initial_version_options, MaxMenu)),
                        pattern |-> ".*", class |-> "ConstResolver"] ]

-----------------------------------------------------------------------------
(* int(response) *)

Digits == {"0", "1", "2", "3", "4", "5", "6", "7", "8", "9"}

DigitValue(c) ==
    CASE c = "0" -> 0 [] c = "1" -> 1 [] c = "2" -> 2 [] c = "3" -> 3 [] c = "4" -> 4
      [] c = "5" -> 5 [] c = "6" -> 6 [] c = "7" -> 7 [] c = "8" -> 8 [] c = "9" -> 9

RECURSIVE Decimal(_, _)
Decimal(s, acc) == IF s = <<>> THEN acc ELSE Decimal(Tail(s), 10 * acc + DigitValue(Head(s)))

\* int(x) of a str: surrounding whitespace, one optional sign, decimal digits;
\* anything else is the ValueError, given as None
ParseInt(x) ==
    LET s      == Strip(x)
        signed == s # <<>> /\ Head(s) \in {"-", "+"}
        digits == IF signed THEN Tail(s) ELSE s
    IN  IF digits = <<>> \/ \E i \in 1..Len(digits) : digits[i] \notin Digits
        THEN None
        ELSE [k |-> "int",
              n |-> IF signed /\ Head(s) = "-" THEN 0 - Decimal(digits, 0)
                    ELSE Decimal(digits, 0)]

-----------------------------------------------------------------------------
(* The patterns of the resolvers, each as pattern.fullmatch(x) *)

Lower == {"a", "b", "c", "d", "e", "f", "g", "h", "i", "j", "k", "l", "m",
          "n", "o", "p", "q", "r", "s", "t", "u", "v", "w", "x", "y", "z"}
Upper == {"A", "B", "C", "D", "E", "F", "G", "H", "I", "J", "K", "L", "M",
          "N", "O", "P", "Q", "R", "S", "T", "U", "V", "W", "X", "Y", "Z"}
Letters == Lower \cup Upper

AllIn(s, class) == \A i \in 1..Len(s) : s[i] \in class

\* '[a-zA-Z][a-zA-Z0-9_]*'
FullMatchPackage(x) ==
    /\ x # <<>>
    /\ x[1] \in Letters
    /\ AllIn(x, Letters \cup Digits \cup {"_"})

\* '[0-9]{4}' under pattern.match, which stops at the end of the pattern
FullMatchYear_match(x) == Len(x) >= 4 /\ AllIn(SubSeq(x, 1, 4), Digits)

\* '[0-9]{4}'
FullMatchYear(x) == Len(x) = 4 /\ AllIn(x, Digits)

\* '.*': the dot matches everything but a newline
FullMatchAny(x) == \A i \in 1..Len(x) : x[i] # "\n"

\* author_pattern: '[a-zA-Z\s0-9_]+\s<[a-zA-Z._0-9]+@[a-zA-Z._0-9]+>'
FullMatchAuthor(x) ==
    LET NameClass == Letters \cup Digits \cup Whitespace \cup {"_"}
        MailClass == Letters \cup Digits \cup {".", "_"}
    IN  \E a, b \in 1..Len(x) :
            /\ a + 3 < b /\ b + 1 < Len(x)
            /\ AllIn(SubSeq(x, 1, a), NameClass)
            /\ x[a + 1] \in Whitespace
            /\ x[a + 2] = "<"
            /\ AllIn(SubSeq(x, a + 3, b - 1), MailClass)
            /\ x[b] = "@"
            /\ AllIn(SubSeq(x, b + 1, Len(x) - 1), MailClass)
            /\ x[Len(x)] = ">"

RECURSIVE FullMatchAuthors(_)
\* author_pattern + "(,\s*" + author_pattern + ")*"
FullMatchAuthors(x) ==
    \/ FullMatchAuthor(x)
    \/ \E p, q \in 1..Len(x) :
            /\ p <= q
            /\ x[p] = ","
            /\ AllIn(SubSeq(x, p + 1, q), Whitespace)
            /\ FullMatchAuthor(SubSeq(x, q + 1, Len(x)))
            /\ FullMatchAuthors(SubSeq(x, 1, p - 1))

\* self.pattern.fullmatch(x) of the resolver of decision name
FullMatch(name, x) ==
    CASE name = "package" -> FullMatchPackage(x)
      [] name = "year"    -> FullMatchYear(x)
      [] name = "authors" -> FullMatchAuthors(x)
      [] OTHER            -> FullMatchAny(x)

\* RegexDecisionValidator.custom_option and its override in AuthorsResolver
custom_option(name, x) ==
    IF ~FullMatch(name, x) THEN Raise("ValueError")
    ELSE IF decisions[name].class = "AuthorsResolver" THEN Authors(x)
    ELSE Str(x)

\* self.custom_option is set to None only for a resolver without a pattern
HasCustomOption(name) == decisions[name].pattern # ""

-----------------------------------------------------------------------------
(* What the environment can hand to the program *)

\* lines the user types at a menu prompt
Responses == {<<"1">>, <<"2">>, <<"3">>, <<"0">>, <<"-", "1">>, <<"-", "9">>,
              <<"t">>, <<"x">>, <<>>}

\* lines the user types at the custom text prompt of a decision
CustomLines(name) ==
    CASE name = "package" -> {<<"w", "2">>, <<"2", "w">>}
      [] name = "year"    -> {<<"9", "9">>, <<"2", "0", "x", "1">>, <<"2", "0", "2", "1">>,
                              <<"2", "0", "2", "1", "1">>}
      [] name = "authors" -> {<<"A", " ", "<", "a", "@", "b", ">", ",", " ",
                                "B", " ", "<", "c", "@", "d", ">">>,
                              <<"A">>}
      [] OTHER            -> {<<"x">>}

\* lines the user types at the confirmation
ConfirmLines == {<<>>, <<"n">>}

\* a finished child process: its return code and its standard output
Process(returncode, stdout) == [returncode |-> returncode, stdout |-> stdout]

UserNameRuns == {Process(1, <<>>), Process(0, <<"\n">>), Process(0, <<"Ann Lee", "\n">>)}
UserEmailRuns == {Process(1, <<>>), Process(0, <<"\n">>), Process(0, <<"ann@x.com", "\n">>)}
RemoteRuns == {Process(128, <<>>), Process(0, <<>>), Process(0, <<"origin", "\n">>)}
GetUrlRuns == {Process(2, <<>>), Process(0, <<"\n">>),
               Process(0, <<"https://h/r", ".git", "\n">>)}

-----------------------------------------------------------------------------
(* The resolution session *)

\* run_and_get, given the finished process
run_and_get(result, default) ==
    IF result.returncode # 0 THEN default ELSE Str(Strip(result.stdout))

\* Truthy, were every str true
Truthy_any_str(v) == v # None

\* the truth value of a Python object used as a condition
Truthy(v) == ~(v = None \/ (v.k = "str" /\ v.s = <<>>))

\* str.splitlines()
SplitLines(s) == IF s = <<>> THEN <<>> ELSE SplitOn(s, "\n", <<>>)

\* ConstResolver.add_option
add_option(opts, name, option) == [opts EXCEPT ![name] = @ \cup {option}]

\* list(self.options()): a set is listed in an order the program does not choose
Listings(S) ==
    {l \in [1..Cardinality(S) -> S] : \A i, j \in 1..Cardinality(S) : l[i] = l[j] => i = j}

\* options[response_int]: Python indexes from 0 and counts a negative index from
\* the end; an index before the first element is the IndexError
Index(list, i) ==
    IF i >= 0 THEN list[i + 1]
    ELSE IF Len(list) + i >= 0 THEN list[Len(list) + i + 1]
    ELSE Raise("IndexError")

\* the condition under which make returns options[response_int]
InRange(response_int, list) == response_int < Len(list)

\* LoopDone, were the loop to leave out the last key
LoopDone_early(i) == i = Len(Names) - 1

\* the for loop of main has run resolver.make for every key of decisions
LoopDone(i) == i = Len(Names)

\* make raised: the exception leaves make and main
Raised(e) ==
    /\ pc' = "raised" /\ exc' = e /\ status' = 1
    /\ returned' = None /\ printed' = <<>>
    /\ UNCHANGED <<made_decisions, order, cur, depth, shown>>

\* made_decisions[name] = resolver.make(name), and the next round of the loop
Return(value, out) ==
    /\ returned' = value
    /\ printed' = out
    /\ made_decisions' = [n \in DOMAIN made_decisions \cup {Names[cur]} |->
                             IF n = Names[cur] THEN value ELSE made_decisions[n]]
    /\ order' = IF Names[cur] \in DOMAIN made_decisions THEN order
                ELSE Append(order, Names[cur])
    /\ pc' = IF LoopDone(cur) THEN "confirm" ELSE "make"
    /\ cur' = IF LoopDone(cur) THEN cur ELSE cur + 1
    /\ UNCHANGED <<depth, shown, status, exc>>

\* print(f'could not parse {response}'); return self.make(name)
Retry(out) ==
    /\ depth < MaxDepth
    /\ depth' = depth + 1
    /\ printed' = Append(out, "could not parse")
    /\ pc' = "input"
    /\ returned' = None
    /\ UNCHANGED <<made_decisions, order, cur, shown, status, exc>>

\* main up to the first probe: the command line, project_root, and the options
\* for the folder name and the current year
Start ==
    /\ pc = "start"
    /\ options' = add_option(add_option(options, "package",
                                        DecisionOption(<<"folder_name">>, Str(<<"proj">>))),
                             "year", DecisionOption(<<"current year">>, Str(<<"2026">>)))
    /\ pc' = "identity"
    /\ UNCHANGED <<confirmation, args, made_decisions, order, cur, depth, shown, response, custom,
                   printed, returned, status, exc, fs, fs0, todo, scanned, evals,
                   opt, described>>

\* the probe of the git identity.  subprocess.run is given the whole command as
\* one str and no shell: where that str names no program it raises
\* FileNotFoundError, elsewhere the command runs.
ProbeIdentity ==
    /\ pc = "identity"
    /\ \/ /\ pc' = "raised" /\ exc' = "FileNotFoundError" /\ status' = 1
          /\ UNCHANGED options
       \/ \E u \in UserNameRuns, e \in UserEmailRuns :
            LET username == run_and_get(u, None)
                email    == run_and_get(e, None)
            IN  /\ options' =
                      IF Truthy(username) /\ Truthy(email)
                      THEN add_option(options, "authors",
                               DecisionOption(<<"git user">>,
                                   Authors(username.s \o <<" ", "<">> \o email.s \o <<">">>)))
                      ELSE options
                /\ pc' = "remotes"
                /\ UNCHANGED <<status, exc>>
    /\ UNCHANGED <<confirmation, args, made_decisions, order, cur, depth, shown, response, custom,
                   printed, returned, fs, fs0, todo, scanned, evals, opt, described>>

RECURSIVE AddRemotes(_, _, _)
\* the loop over the remotes: urls gives the run of git remote get-url of each
AddRemotes(opts, remotes, urls) ==
    IF remotes = <<>> THEN opts
    ELSE LET remote == Head(remotes)
             url    == run_and_get(urls[remote], None)
             cut    == IF url.s # <<>> /\ url.s[Len(url.s)] = ".git"
                       THEN SubSeq(url.s, 1, Len(url.s) - 1) ELSE url.s
         IN  AddRemotes(IF Truthy(url)
                        THEN add_option(opts, "repo_link", DecisionOption(remote, Str(cut)))
                        ELSE opts,
                        Tail(remotes), urls)

\* the probe of the git remotes
ProbeRemotes ==
    /\ pc = "remotes"
    /\ \E r \in RemoteRuns :
        LET remotes == SplitLines(run_and_get(r, Str(<<>>)).s)
            names   == [i \in 1..Len(remotes) |-> <<remotes[i]>>]
        IN  \E urls \in [Range(names) -> GetUrlRuns] :
                options' = AddRemotes(options, names, urls)
    /\ made_decisions' = <<>>
    /\ cur' = 1
    /\ pc' = "make"
    /\ UNCHANGED <<confirmation, args, order, depth, shown, response, custom, printed, returned,
                   status, exc, fs, fs0, todo, scanned, evals, opt, described>>

\* make, up to its input: the options are listed and the menu is built.  A call
\* of make from make lists the same set again, in the same order.
MakeStart ==
    /\ pc = "make"
    /\ \E l \in Listings(options[Names[cur]]) : shown' = l
    /\ depth' = 0
    /\ response' = None /\ custom' = None /\ printed' = <<>> /\ returned' = None
    /\ pc' = "input"
    /\ UNCHANGED <<confirmation, args, options, made_decisions, order, cur, status, exc, fs, fs0,
                   todo, scanned, evals, opt, described>>

\* make, from the menu response on
MenuInput ==
    /\ pc = "input"
    /\ \E r \in Responses :
        LET response_int == ParseInt(r)
        IN  /\ response' = Str(r)
            /\ custom' = None
            /\ IF response_int # None /\ InRange(response_int.n, shown)
               THEN LET option == Index(shown, response_int.n)
                    IN  IF option.k = "raise" THEN Raised(option.exc)
                        ELSE Return(option, <<>>)
               ELSE IF HasCustomOption(Names[cur]) /\ r = <<"t">>
               THEN /\ pc' = "custom"
                    /\ printed' = <<>>
                    /\ returned' = None
                    /\ UNCHANGED <<made_decisions, order, cur, depth, shown, status, exc>>
               ELSE Retry(<<>>)
    /\ UNCHANGED <<confirmation, args, options, fs, fs0, todo, scanned, evals, opt, described>>

\* make, from the custom text on
CustomInput ==
    /\ pc = "custom"
    /\ \E x \in CustomLines(Names[cur]) :
        LET value == custom_option(Names[cur], x)
        IN  /\ custom' = Str(x)
            /\ IF value.k = "raise" THEN Retry(<<"must match">>)
               ELSE Return(value, <<>>)
    /\ UNCHANGED <<confirmation, args, options, response, fs, fs0, todo, scanned, evals, opt, described>>

\* the confirmation: anything but an empty line is sys.exit(1)
Confirm ==
    /\ pc = "confirm"
    /\ \E r \in ConfirmLines :
        /\ confirmation' = Str(r)
        /\ IF Truthy(Str(r))
           THEN /\ pc' = "exit" /\ status' = 1 /\ todo' = {}
           ELSE /\ pc' = "rewrite" /\ status' = status /\ todo' = DOMAIN fs
    /\ shown' = <<>> /\ response' = None /\ custom' = None
    /\ printed' = <<>> /\ returned' = None /\ depth' = 0
    /\ UNCHANGED <<args, options, made_decisions, order, cur, exc, fs, fs0, scanned,
                   evals, opt, described>>

-----------------------------------------------------------------------------
(* The placeholder evaluator: repl and inner of main *)

RECURSIVE JoinWith(_, _)
\* sep.join(parts), the parts being strings
JoinWith(parts, sep) ==
    IF parts = <<>> THEN <<>>
    ELSE IF Len(parts) = 1 THEN Head(parts)
    ELSE Head(parts) \o sep \o JoinWith(Tail(parts), sep)

RECURSIVE Words(_, _)
\* str.split() without a separator: the runs between whitespace, none empty
Words(s, acc) ==
    IF s = <<>> THEN (IF acc = <<>> THEN <<>> ELSE <<acc>>)
    ELSE IF Head(s) \in Whitespace
         THEN (IF acc = <<>> THEN <<>> ELSE <<acc>>) \o Words(Tail(s), <<>>)
    ELSE Words(Tail(s), Append(acc, Head(s)))

\* the default object.__repr__ of an instance of a class without one
ObjectRepr(class) == <<"<__main__.", class, " object>">>

\* repr(v)
PyRepr(v) ==
    CASE v.k = "str"     -> <<"'">> \o v.s \o <<"'">>
      [] v.k = "None"    -> <<"N", "o", "n", "e">>
      [] v.k = "list"    -> <<"[">> \o JoinWith([i \in 1..Len(v.items) |->
                                          <<"'">> \o v.items[i] \o <<"'">>], <<", ">>)
                            \o <<"]">>
      [] OTHER           -> ObjectRepr(v.k)

\* str(v): License defines __str__, a NamedTuple prints its fields by repr
PyStr(v) ==
    CASE v.k = "str"            -> v.s
      [] v.k = "License"        -> v.long
      [] v.k = "DecisionOption" -> <<"DecisionOption(name=">> \o PyRepr(Str(v.name))
                                   \o <<", value=">> \o PyRepr(v.value) \o <<")">>
      [] OTHER                  -> PyRepr(v)

Method(self, name) == [k |-> "method", self |-> self, name |-> name]
Function(name) == [k |-> "function", name |-> name]

\* callable(v)
Callable(v) == v.k \in {"method", "function"}

\* x.partition('!'): the text before the first '!' and the text after it
Partition(x) ==
    IF \E i \in 1..Len(x) : x[i] = "!"
    THEN LET i == CHOOSE i \in 1..Len(x) : x[i] = "!" /\ \A j \in 1..(i - 1) : x[j] # "!"
         IN  [first |-> SubSeq(x, 1, i - 1), second |-> SubSeq(x, i + 1, Len(x))]
    ELSE [first |-> x, second |-> <<>>]

\* made_decisions[first]
Lookup(resolved, first) ==
    IF Len(first) = 1 /\ first[1] \in DOMAIN resolved THEN resolved[first[1]]
    ELSE Raise("KeyError")

\* getattr(v, second, None), for the attributes the model reads
GetAttr(v, second) ==
    IF Len(second) # 1 THEN None
    ELSE LET a == second[1]
         IN  CASE v.k = "DecisionOption" /\ a = "name"   -> Str(v.name)
               [] v.k = "DecisionOption" /\ a = "value"  -> v.value
               [] v.k = "License" /\ a = "long"          -> Str(v.long)
               [] v.k = "License" /\ a = "short"         -> Str(v.short)
               [] v.k = "PyVersions" /\ a = "semver"     -> Str(v.semver)
               [] v.k = "PyVersions" /\ a = "preferred"  -> Str(v.preferred)
               [] v.k = "PyVersions" /\ a = "minors"     -> Method(v, "minors")
               [] v.k = "Authors" /\ a = "parts"         -> List(v.parts)
               [] v.k = "Authors" /\ a = "split"         -> Method(v, "split")
               [] v.k = "str" /\ a = "split"             -> Method(v, "split")
               [] v.k = "str" /\ a = "strip"             -> Method(v, "strip")
               [] OTHER                                  -> None

\* eval(second) inside inner: the module's functions, the builtin str and the
\* local evaled_first are the names the model reads
EvalSnippet(second, evaled_first) ==
    IF Len(second) # 1 THEN Raise("SyntaxError")
    ELSE LET a == second[1]
         IN  CASE a \in {"preferred", "split", "semver", "quote", "str"} -> Function(a)
               [] a = "evaled_first" -> evaled_first
               [] OTHER -> Raise("NameError")

\* quote(x)
quote(x) ==
    LET text == PyStr(x)
    IN  Str(<<"\"">> \o [i \in 1..Len(text) |-> IF text[i] = "\"" THEN "\\\"" ELSE text[i]]
            \o <<"\"">>)

\* the function custom_text_hotswap returns: line is what input() reads
custom_text_hotswap(x, line) == IF x.k # "str" THEN Raise("TypeError") ELSE Str(line)

\* f(x)
Call1(f, x, line) ==
    CASE f.k = "function" /\ f.name = "quote" -> quote(x)
      [] f.k = "function" /\ f.name = "str"   -> Str(PyStr(x))
      [] f.k = "function"                     -> custom_text_hotswap(x, line)
      [] OTHER                                -> Raise("TypeError")

\* f()
Call0(f) ==
    CASE f.k = "method" /\ f.self.k = "PyVersions" ->
             Str(JoinWith([i \in 1..Len(f.self._minors) |-> <<f.self._minors[i]>>], <<", ">>))
      [] f.k = "method" /\ f.self.k = "Authors" -> List(f.self.parts)
      [] f.k = "method" /\ f.name = "split"     -> List(Words(f.self.s, <<>>))
      [] f.k = "method" /\ f.name = "strip"     -> Str(Strip(f.self.s))
      [] OTHER                                  -> Raise("TypeError")

\* inner(x) of repl; the recursive call is on a text without '!'
inner(resolved, x, line) ==
    LET first  == Partition(x).first
        second == Partition(x).second
    IN  IF second = <<>> THEN Lookup(resolved, first)
        ELSE LET evaled_first == Lookup(resolved, Partition(first).first)
                 by_attribute == GetAttr(evaled_first, second)
                 second_callback == EvalSnippet(second, evaled_first)
                 evaled_second ==
                     IF by_attribute # None THEN by_attribute
                     ELSE IF second_callback.k = "raise" THEN second_callback
                     ELSE Call1(second_callback, by_attribute, line)
             IN  IF evaled_first.k = "raise" THEN evaled_first
                 ELSE IF Callable(evaled_second) THEN Call0(evaled_second)
                 ELSE evaled_second

\* repl, were it to return repr(inner(match[1]))
repl_repr(resolved, body, line) ==
    LET value == inner(resolved, body, line)
    IN  IF value.k = "raise" THEN value ELSE Str(PyRepr(value))

\* repl(match), match[1] being body
repl(resolved, body, line) ==
    LET value == inner(resolved, body, line)
    IN  IF value.k = "raise" THEN value ELSE Str(PyStr(value))

-----------------------------------------------------------------------------
(* The project tree and the rewrite pass *)

\* a path under project_root: the directory it is in, and its name as
\* Path.stem and Path.suffix
Path(dir, stem, suffix) == [dir |-> dir, stem |-> stem, suffix |-> suffix]

\* what a path holds
TextFile(content) == [kind |-> "text", content |-> content]
BinaryFile == [kind |-> "binary", content |-> <<>>]
Directory == [kind |-> "dir", content |-> <<>>]

\* file.with_suffix('.bkp')
with_suffix(file, suffix) == [file EXCEPT !.suffix = suffix]

\* file.name == 'README.md'
IsReadme(file) == file.stem = <<"README">> /\ file.suffix = ".md"

\* chunks that hold a '$'
Dollars == {"<$", "$>"}

RECURSIVE FindTokens(_, _)
\* pattern.finditer(text) for '<\$([^$]*)\$>', from chunk i on: the bodies, in order
FindTokens(text, i) ==
    IF i > Len(text) THEN <<>>
    ELSE IF text[i] # "<$" THEN FindTokens(text, i + 1)
    ELSE IF \E j \in (i + 1)..Len(text) : text[j] \in Dollars
    THEN LET j == CHOOSE j \in (i + 1)..Len(text) :
                      text[j] \in Dollars /\ \A l \in (i + 1)..(j - 1) : text[l] \notin Dollars
         IN  IF text[j] = "$>"
             THEN <<[from |-> i, to |-> j, body |-> SubSeq(text, i + 1, j - 1)]>>
                  \o FindTokens(text, j + 1)
             ELSE FindTokens(text, i + 1)
    ELSE <<>>

RECURSIVE SubFrom(_, _, _, _, _)
\* pattern.sub(repl, text): repl is called for the matches in order, and the
\* first exception it raises ends the substitution.  evals lists the calls.
SubFrom(text, tokens, at, resolved, line) ==
    IF tokens = <<>>
    THEN [out |-> Str(SubSeq(text, at, Len(text))), evals |-> <<>>]
    ELSE LET t    == Head(tokens)
             r    == repl(resolved, t.body, line)
             call == [body |-> t.body, line |-> line, result |-> r]
             rest == SubFrom(text, Tail(tokens), t.to + 1, resolved, line)
         IN  IF r.k = "raise" THEN [out |-> r, evals |-> <<call>>]
             ELSE IF rest.out.k = "raise"
             THEN [out |-> rest.out, evals |-> <<call>> \o rest.evals]
             ELSE [out |-> Str(SubSeq(text, at, t.from - 1) \o r.s \o rest.out.s),
                   evals |-> <<call>> \o rest.evals]

Sub(text, resolved, line) == SubFrom(text, FindTokens(text, 1), 1, resolved, line)

\* what the loop does with the text a file was read to: None, or the text it
\* writes back to the file.  The result of pattern.sub is dropped.
Rewritten(substituted) == None

\* what input() returns to a function of custom_text_hotswap
HotswapLines == {<<"z">>}

\* one round of the loop over project_root.rglob('*')
RewriteFile ==
    /\ pc = "rewrite"
    /\ \E file \in todo, line \in HotswapLines :
        /\ todo' = todo \ {file}
        /\ IF file.suffix = ".bkp" \/ IsReadme(file)
           THEN UNCHANGED <<pc, status, exc, fs, scanned, evals>>
           ELSE IF fs[file].kind = "dir"
           THEN /\ pc' = "raised" /\ exc' = "IsADirectoryError" /\ status' = 1
                /\ UNCHANGED <<fs, scanned, evals>>
           ELSE IF fs[file].kind = "binary"
           THEN UNCHANGED <<pc, status, exc, fs, scanned, evals>>
           ELSE LET original == fs[file].content
                    backup   == with_suffix(file, ".bkp")
                    saved    == IF args.backup /\ FindTokens(original, 1) # <<>>
                                THEN [p \in DOMAIN fs \cup {backup} |->
                                         IF p = backup THEN TextFile(original) ELSE fs[p]]
                                ELSE fs
                    done     == Sub(original, made_decisions, line)
                    written  == Rewritten(done.out)
                IN  /\ scanned' = scanned \cup {file}
                    /\ evals' = done.evals
                    /\ IF done.out.k = "raise"
                       THEN /\ pc' = "raised" /\ exc' = done.out.exc /\ status' = 1
                            /\ fs' = saved
                       ELSE /\ fs' = IF written = None THEN saved
                                     ELSE [saved EXCEPT ![file] = TextFile(written.s)]
                            /\ UNCHANGED <<pc, status, exc>>
    /\ UNCHANGED <<confirmation, args, options, made_decisions, order, cur, depth, shown, response,
                   custom, printed, returned, fs0, opt, described>>

\* main after the loop: the package directory and its _version.py
PackageDir ==
    /\ pc = "rewrite"
    /\ todo = {}
    /\ LET pkg_name    == made_decisions["package"]
           package_dir == Path(<<>>, pkg_name.s, "")
           version     == Path(pkg_name.s, <<"_version">>, ".py")
       IN  IF pkg_name.k # "str"
           THEN /\ pc' = "raised" /\ exc' = "TypeError" /\ status' = 1 /\ fs' = fs
           ELSE IF package_dir \in DOMAIN fs
           THEN /\ pc' = "raised" /\ exc' = "FileExistsError" /\ status' = 1 /\ fs' = fs
           ELSE /\ pc' = "done" /\ exc' = exc /\ status' = 0
                /\ fs' = [p \in DOMAIN fs \cup {package_dir, version} |->
                             IF p = package_dir THEN Directory
                             ELSE IF p = version THEN TextFile(<<"__version__ = 0.0.1dev">>)
                             ELSE fs[p]]
    /\ UNCHANGED <<confirmation, args, options, made_decisions, order, cur, depth, shown, response,
                   custom, printed, returned, fs0, todo, scanned, evals, opt, described>>

-----------------------------------------------------------------------------
(* The project trees the run starts from *)

Token(body) == <<"<$">> \o body \o <<"$>">>

\* a tree every file of which the loop gets through
TreeFlat ==
    (Path(<<>>, <<"a">>, ".txt") :> TextFile(<<"name = ">> \o Token(<<"package">>) \o <<"\n">>))
    @@ (Path(<<>>, <<"a">>, ".py") :> TextFile(Token(<<"year">>) \o <<"-">> \o Token(<<"package">>)))
    @@ (Path(<<>>, <<"notes">>, ".txt") :> TextFile(<<"no placeholder here">>))

\* a tree with entries the loop skips and entries it fails on
TreeMixed ==
    (Path(<<>>, <<"README">>, ".md") :> TextFile(Token(<<"package">>)))
    @@ (Path(<<>>, <<"logo">>, ".png") :> BinaryFile)
    @@ (Path(<<>>, <<"c">>, ".bkp") :> TextFile(<<"an old backup">>))
    @@ (Path(<<>>, <<"c">>, ".cfg") :> TextFile(<<"name = ">> \o Token(<<" ", "package", " ">>)))
    @@ (Path(<<>>, <<"scripts">>, "") :> Directory)
    @@ (Path(<<>>, <<"d">>, ".toml") :>
            TextFile(Token(<<"authors", "!", "split">>) \o <<"\n">>
                     \o Token(<<"package", "!", "quote">>)))

Trees == {TreeFlat, TreeMixed}

-----------------------------------------------------------------------------
(* The run of main *)

Init ==
    /\ pc = "start"
    /\ args \in [backup : BOOLEAN]
    /\ options = [n \in Range(Names) |-> decisions[n].options]
    /\ made_decisions = <<>>
    /\ order = <<>>
    /\ cur = 1
    /\ depth = 0
    /\ shown = <<>> /\ response = None /\ custom = None /\ printed = <<>> /\ returned = None
    /\ confirmation = None
    /\ status = 0
    /\ exc = "none"
    /\ fs \in Trees
    /\ fs0 = fs
    /\ todo = {}
    /\ scanned = {}
    /\ evals = <<>>
    /\ opt = None
    /\ described = None

Next ==
    \/ Start
    \/ ProbeIdentity
    \/ ProbeRemotes
    \/ MakeStart
    \/ MenuInput
    \/ CustomInput
    \/ Confirm
    \/ RewriteFile
    \/ PackageDir

Spec == Init /\ [][Next]_vars

-----------------------------------------------------------------------------
(* DecisionOption.describe *)

DESCRIPTION_MAX_LEN == 20

\* describe() of option: the texts are sequences of characters here
describe(option) ==
    LET chars_left == DESCRIPTION_MAX_LEN - Len(option.name) - 3
        printable_value == IF Truthy(option.value) THEN option.value
                           ELSE Str(PyRepr(option.value))
        side_len == (chars_left - 2) \div 2
        a == SubSeq(printable_value.s, 1, side_len)
        b == SubSeq(printable_value.s, Len(printable_value.s) - side_len + 1,
                    Len(printable_value.s))
    IN  IF chars_left <= 0 THEN Str(option.name)
        ELSE IF printable_value.k # "str" THEN Raise("TypeError")
        ELSE IF Len(printable_value.s) <= chars_left
        THEN Str(option.name \o <<" ", "(">> \o printable_value.s \o <<")">>)
        ELSE IF chars_left - 2 <= 2 THEN Str(option.name)
        ELSE Str(option.name \o <<" ", "(">> \o a \o <<".", ".">> \o b \o <<")">>)

Alphabet == <<"a", "b", "c", "d", "e", "f", "g", "h", "i", "j", "k", "l", "m",
              "n", "o", "p", "q", "r", "s", "t", "u", "v", "w", "x", "y", "z">>

\* the option names and option values describe is applied to
DescribeNames == {[i \in 1..n |-> "N"] : n \in 0..MaxNameLen}
DescribeValues ==
    {Str([i \in 1..n |-> Alphabet[((i - 1) % 26) + 1]]) : n \in 0..MaxValueLen}
    \cup {None, License(<<"l", "o", "n", "g">>, <<"s">>)}

InitDescribe ==
    /\ pc = "describe"
    /\ args = [backup |-> FALSE]
    /\ options = [n \in Range(Names) |-> decisions[n].options]
    /\ made_decisions = <<>>
    /\ order = <<>>
    /\ cur = 1
    /\ depth = 0
    /\ shown = <<>> /\ response = None /\ custom = None /\ printed = <<>> /\ returned = None
    /\ confirmation = None
    /\ status = 0
    /\ exc = "none"
    /\ fs = <<>>
    /\ fs0 = <<>>
    /\ todo = {}
    /\ scanned = {}
    /\ evals = <<>>
    /\ opt = None
    /\ described = None

Describe ==
    /\ pc = "describe"
    /\ \E name \in DescribeNames, value \in DescribeValues :
        /\ opt' = DecisionOption(name, value)
        /\ described' = describe(DecisionOption(name, value))
    /\ UNCHANGED <<pc, args, options, made_decisions, order, cur, depth, shown, response,
                   custom, printed, returned, confirmation, status, exc, fs, fs0, todo,
                   scanned, evals>>

NextDescribe == Describe

SpecDescribe == InitDescribe /\ [][NextDescribe]_vars

-----------------------------------------------------------------------------
(* The claims *)

\* the state is the one a menu response left
AfterMenuInput ==
    /\ pc \in {"make", "confirm", "input", "custom", "raised"}
    /\ response # None
    /\ custom = None

\* the state is the one a custom text left
AfterCustomInput ==
    /\ pc \in {"make", "confirm", "input"}
    /\ custom # None

\* the decision the last call of make was for
Asked == IF returned # None THEN order[Len(order)] ELSE Names[cur]

\* C1: a non-empty confirmation line ends the run with a non-zero exit status
\* and nothing under the project root has been created, modified or deleted up
\* to then; only an empty line lets the run go on to the rewrite pass.
C1_DeclineLeavesTreeUntouched ==
    /\ pc \in {"start", "identity", "remotes", "make", "input", "custom", "confirm", "exit"}
           => fs = fs0
    /\ pc = "exit" => status # 0 /\ confirmation # None /\ confirmation.s # <<>>
    /\ pc \in {"rewrite", "done"} => confirmation = Str(<<>>)
    /\ confirmation # None /\ confirmation.s # <<>> => pc = "exit"

C1_Witness == pc = "exit" /\ confirmation = Str(<<"n">>) /\ Len(order) = Len(Names)

\* C2: a response that is the number i of a displayed entry, 1 <= i <= n, makes
\* make return the value field of the option displayed with number i, without
\* prompting again.
C2_MenuNumberReturnsValue ==
    \A i \in 1..Len(shown) :
        AfterMenuInput /\ ParseInt(response.s) = [k |-> "int", n |-> i]
            => /\ pc \in {"make", "confirm"}
               /\ returned = shown[i].value
               /\ printed = <<>>

\* the lines of CustomLines that the pattern of each decision matches in full
MatchingLines(name) ==
    CASE name = "package" -> {<<"w", "2">>}
      [] name = "year"    -> {<<"2", "0", "2", "1">>}
      [] name = "authors" -> {<<"A", " ", "<", "a", "@", "b", ">", ",", " ",
                                "B", " ", "<", "c", "@", "d", ">">>}
      [] OTHER            -> {<<"x">>}

\* C3: text entered after 't' is accepted as the resolved value if and only
\* if the whole text matches the pattern of the decision (for year: exactly four
\* digits); otherwise the validation error is reported, nothing is returned and
\* make is back at the menu prompt.
C3_FreeTextAcceptedIffFullMatch ==
    AfterCustomInput =>
        LET matches  == custom.s \in MatchingLines(Asked)
            accepted == /\ pc \in {"make", "confirm"}
                        /\ returned # None
                        /\ made_decisions[Asked] = returned
                        /\ IF Asked = "authors" THEN returned = Authors(custom.s)
                           ELSE returned = custom
            rejected == /\ pc = "input"
                        /\ returned = None
                        /\ Names[cur] \notin DOMAIN made_decisions
                        /\ printed = <<"must match", "could not parse">>
        IN  /\ response = Str(<<"t">>)
            /\ matches => accepted
            /\ ~matches => rejected
            /\ Asked = "year" =>
                 (matches <=> Len(custom.s) = 4 /\ \A i \in 1..4 : custom.s[i] \in Digits)

C3_Witness ==
    /\ AfterCustomInput
    /\ pc = "input"
    /\ Names[cur] = "year"
    /\ custom = Str(<<"2", "0", "x", "1">>)
    /\ printed = <<"must match", "could not parse">>

\* C4: a response that is neither the number of a displayed entry nor the
\* permitted free-text sentinel has an error reported and the menu prompted
\* again; make neither returns nor raises on it.
C4_InvalidResponseReprompts ==
    LET valid == \/ \E i \in 1..Len(shown) : ParseInt(response.s) = [k |-> "int", n |-> i]
                 \/ response.s = <<"t">> /\ HasCustomOption(Asked)
    IN  AfterMenuInput /\ ~valid
            => /\ pc = "input"
               /\ returned = None
               /\ printed = <<"could not parse">>

\* the text of file when the run started holds a placeholder
HasToken(file) == FindTokens(fs0[file].content, 1) # <<>>

\* C5: after a confirmed run every scanned file that held placeholders has
\* been written back with every placeholder replaced: no delimiter remains.
C5_TokensReplacedInPlace ==
    pc = "done" =>
        \A file \in scanned :
            HasToken(file) =>
                /\ fs[file] # fs0[file]
                /\ \A i \in 1..Len(fs[file].content) : fs[file].content[i] \notin Dollars

\* C6: after the rewrite pass, every scanned file with a placeholder has, in
\* backup mode, a sibling .bkp file holding its text from before the pass; and
\* no backup is written for a file without a placeholder or without backup mode.
C6_BackupHoldsOriginal ==
    pc \in {"rewrite", "done"} /\ todo = {} =>
        /\ \A file \in scanned :
              args.backup /\ HasToken(file) =>
                  /\ with_suffix(file, ".bkp") \in DOMAIN fs
                  /\ fs[with_suffix(file, ".bkp")] = TextFile(fs0[file].content)
        /\ \A p \in DOMAIN fs :
              p.suffix = ".bkp" /\ (p \notin DOMAIN fs0 \/ fs[p] # fs0[p]) =>
                  /\ args.backup
                  /\ \E file \in scanned : HasToken(file) /\ with_suffix(file, ".bkp") = p

RECURSIVE ChainApply(_, _, _)
\* the accessors applied from the left to the value v, as C7 states it: the
\* attribute of v when v has it, else the snippet, called with v when callable;
\* a callable result is called without arguments
ChainApply(v, accessors, line) ==
    IF accessors = <<>> \/ v.k = "raise" THEN v
    ELSE LET attribute == GetAttr(v, Head(accessors))
             snippet   == EvalSnippet(Head(accessors), v)
             got       == IF attribute # None THEN attribute
                          ELSE IF snippet.k = "raise" THEN snippet
                          ELSE IF Callable(snippet) THEN Call1(snippet, v, line)
                          ELSE snippet
             value     == IF Callable(got) THEN Call0(got) ELSE got
         IN  ChainApply(value, Tail(accessors), line)

\* C7: a chained expression name!a1!...!ak applies the accessors left to right
\* from the resolved value of name, the attribute first, the snippet otherwise,
\* a callable snippet being called with the current value.
C7_ChainAppliesAccessorsLeftToRight ==
    \A n \in 1..Len(evals) :
        LET e        == evals[n]
            parts    == SplitOn(e.body, "!", <<>>)
            value    == ChainApply(Lookup(made_decisions, Head(parts)), Tail(parts), e.line)
            expected == IF value.k = "raise" THEN value ELSE Str(PyStr(value))
        IN  Len(parts) > 1 /\ parts[2] # <<>>
                => \/ e.result = expected
                   \/ e.result.k = "raise" /\ expected.k = "raise"

\* C8: a bare name evaluates to the textual form of the value resolved for that
\* decision, and to the error of an unresolved reference when it is no key of
\* the resolution map.
C8_BareNameYieldsResolvedText ==
    \A n \in 1..Len(evals) :
        LET e == evals[n]
        IN  (\A i \in 1..Len(e.body) : e.body[i] # "!") =>
                IF Len(e.body) = 1 /\ e.body[1] \in DOMAIN made_decisions
                THEN e.result = Str(PyStr(made_decisions[e.body[1]]))
                ELSE e.result = Raise("KeyError")

C8_Witness ==
    /\ Len(evals) = 2
    /\ evals[1].body = <<"year">>
    /\ evals[1].result = Str(<<"2", "0", "2", "1">>)
    /\ evals[2].body = <<"package">>
    /\ evals[2].result = Str(<<"w", "2">>)

\* C9: describe() returns at most DESCRIPTION_MAX_LEN characters, and a result
\* that shows the value in part shows the name, a non-empty prefix and a
\* non-empty suffix of the value, joined by '..'.
C9_DescribeWithinMaxLen ==
    opt # None /\ opt.value.k = "str" =>
        LET value == IF opt.value.s = <<>> THEN <<"'", "'">> ELSE opt.value.s
            whole == opt.name \o <<" ", "(">> \o value \o <<")">>
        IN  /\ described.k = "str"
            /\ Len(described.s) <= DESCRIPTION_MAX_LEN
            /\ described.s \notin {opt.name, whole} =>
                 \E a, b \in 1..Len(value) :
                     described.s = opt.name \o <<" ", "(">> \o SubSeq(value, 1, a)
                                   \o <<".", ".">>
                                   \o SubSeq(value, Len(value) - b + 1, Len(value)) \o <<")">>

\* C10, in every state: the decisions are resolved in the declared order, and
\* once the evaluator has run the map holds a value for every decision
C10_State ==
    /\ Len(order) <= Len(Names)
    /\ order = SubSeq(Names, 1, Len(order))
    /\ DOMAIN made_decisions = Range(order)
    /\ pc \in {"rewrite", "done"} \/ evals # <<>> => order = Names

\* C10, in every step: a decision is resolved once, the next one of the
\* declared order at a time, and a round of the rewrite loop finds every
\* decision resolved and leaves the map as it is
C10_Step ==
    /\ \A n \in DOMAIN made_decisions :
          n \in DOMAIN made_decisions' /\ made_decisions'[n] = made_decisions[n]
    /\ Len(order') <= Len(order) + 1
    /\ order' # order => order' = Append(order, Names[Len(order) + 1])
    /\ pc = "rewrite" => order = Names /\ made_decisions' = made_decisions

\* C10: the session resolves the decisions one at a time in the declared order,
\* each once; whenever the evaluator evaluates a placeholder the map holds a
\* value for every decision, and the map is not changed afterwards.
C10_DecisionsResolvedInOrderBeforeEvaluation == []C10_State /\ [][C10_Step]_vars

C10_Witness == evals # <<>> /\ order = Names /\ pc = "done"

====
